---- MODULE Spec2Model ----
(***************************************************************************)
(* Playback state machine and frame selector of app.py (a Streamlit       *)
(* dashboard).  Streamlit re-executes the whole script, top to bottom, on *)
(* every user event and on every st.rerun().  One script run is modelled  *)
(* as three consecutive steps, in source order:                           *)
(*   run start  : sidebar widgets are read, session keys are persisted,   *)
(*                the left column (map, aggregate share chart) is drawn;  *)
(*   RightColumn: Day Control buttons, scrub slider, Key Metrics,         *)
(*                conversions and churn charts;                           *)
(*   Tick/NoTick: the autoplay block at the end of the script.            *)
(* The host serialises runs: a new run starts only when the previous one  *)
(* has ended (pc = "idle").  A widget returns the value the user gave it  *)
(* in the event that triggered the run, otherwise its current value       *)
(* (for the scrub slider: its `value` argument).                          *)
(***************************************************************************)
EXTENDS Integers, Sequences, FiniteSets

(* ---------------- bounds of the model ---------------- *)
\* max_day of the loaded cell table (data dependent, app.py line 100)
MaxDay == 5
\* step sizes explored: 1..MaxStep plus the slider default
MaxStep == 3
\* frame rates explored: 1..MaxFps plus the slider default
MaxFps == 1
\* how far outside the slider track a scrub position may lie
MaxOver == 1
\* share levels of a cell-day record: 0..MaxShare
MaxShare == 3

(* ---------------- program constants ---------------- *)
StepMin == 1
StepMax == 30
DefaultStep == 5
FpsMin == 1
FpsMax == 30
DefaultFps == 10

max_day == MaxDay

LoopModes == {"Stop at end", "Loop"}

StepValues == {s \in StepMin..StepMax : s <= MaxStep \/ s = DefaultStep}

FpsValues == {f \in FpsMin..FpsMax : f <= MaxFps \/ f = DefaultFps}

ScrubPositions == (0 - MaxOver)..(max_day + MaxOver)

DomCols == <<"FTM_share", "LB_share", "OPP_share">>

COLOR_MAP == [FTM_share |-> <<255, 140, 0>>,
              LB_share  |-> <<0, 128, 255>>,
              OPP_share |-> <<60, 179, 113>>]

Records == [{"FTM_share", "LB_share", "OPP_share"} -> 0..MaxShare]

VARIABLES
    day,                \* st.session_state.day
    playing,            \* st.session_state.playing
    ss_step_days,       \* st.session_state["_step_days"]
    ss_fps,             \* st.session_state["_fps"]
    auto_play,          \* sidebar checkbox "Auto-play"
    fps,                \* sidebar slider "Animation speed"
    loop_mode,          \* sidebar selectbox "Loop mode"
    step_days,          \* sidebar slider "Days per frame"
    render_charts_live, \* sidebar checkbox "Render charts while playing"
    pc,                 \* position of the script run
    ev,                 \* the event that triggered the current/last run
    rerun,              \* st.rerun() was called by the last run
    slept,              \* milliseconds slept by the current/last run
    mapDay,             \* day the map on screen was sliced for (-1: none yet)
    shareChart,         \* aggregate share chart drawn (vs. "Charts paused")
    metricsDay,         \* day the Key Metrics on screen were read for
    convChart,          \* conversions chart drawn
    churnChart,         \* churn chart drawn
    cur,                \* frame selector: one row of the current-day slice
    dom,                \* frame selector: cur["dom"]
    color               \* frame selector: cur["color"]

session == <<day, playing, ss_step_days, ss_fps>>
sidebar == <<auto_play, fps, loop_mode, step_days, render_charts_live>>
screen  == <<mapDay, shareChart, metricsDay, convChart, churnChart>>
frame   == <<cur, dom, color>>
vars    == <<session, sidebar, pc, ev, rerun, slept, screen, frame>>

Event(k, p) == [kind |-> k, pos |-> p]

Max(a, b) == IF a >= b THEN a ELSE b

(* ---------------- helpers translated from the script ---------------- *)

\* lines 246, 354, 372: the guard that replaces a trend chart by st.info
ChartsPaused(ap, pl, rcl) == (ap /\ pl) /\ ~rcl

\* line 334: st.slider("Scrub day", 0, max_day, value): the track spans
\* lo..hi, so a position the user gives is kept inside it; with no move the
\* slider returns its value argument
Slider_unbounded(lo, hi, value, e) ==
    IF e.kind = "scrub" THEN e.pos ELSE value

Slider(lo, hi, value, e) ==
    IF e.kind = "scrub"
    THEN (IF e.pos < lo THEN lo ELSE IF e.pos > hi THEN hi ELSE e.pos)
    ELSE value

\* line 328: playing = not playing
Toggle(pl) == ~pl

\* line 481: the autoplay block runs
AutoplayOn_ignoresAutoPlay(ap, pl) == pl

AutoplayOn_ignoresPlaying(ap, pl) == ap

AutoplayOn(ap, pl) == ap /\ pl

\* lines 483-488, 490: the day the tick stores
NextDay_noClamp(d, step, mode) ==
    LET nxt == d + step
    IN  IF nxt > max_day /\ mode = "Loop" THEN 0 ELSE nxt

NextDay_remainder(d, step, mode) ==
    LET nxt == d + step
    IN  IF nxt > max_day
        THEN (IF mode = "Loop" THEN nxt - max_day - 1 ELSE max_day)
        ELSE nxt

NextDay(d, step, mode) ==
    LET nxt == d + step
    IN  IF nxt > max_day
        THEN (IF mode = "Loop" THEN 0 ELSE max_day)
        ELSE nxt

\* lines 484-489: the playing flag the tick leaves
NextPlaying_neverStops(d, step, mode, pl) == pl

NextPlaying(d, step, mode, pl) ==
    IF d + step > max_day /\ mode # "Loop" THEN FALSE ELSE pl

\* line 491: time.sleep(max(0.0, 1.0 / max(1, fps))), in milliseconds
SleepMs(f) == Max(0, 1000 \div Max(1, f))

\* line 170: DataFrame.idxmax(axis=1) over the three share columns: scan in
\* column order, keep the first maximum
RECURSIVE ArgMaxFrom(_, _, _)
ArgMaxFrom(r, i, best) ==
    IF i > Len(DomCols) THEN best
    ELSE ArgMaxFrom(r, i + 1, IF r[DomCols[i]] > r[DomCols[best]] THEN i ELSE best)

RECURSIVE ArgMaxLastFrom(_, _, _)
ArgMaxLastFrom(r, i, best) ==
    IF i > Len(DomCols) THEN best
    ELSE ArgMaxLastFrom(r, i + 1, IF r[DomCols[i]] >= r[DomCols[best]] THEN i ELSE best)

IdxMax_lastWins(r) == DomCols[ArgMaxLastFrom(r, 2, 1)]

IdxMax(r) == DomCols[ArgMaxFrom(r, 2, 1)]

(* ---------------- initial state ---------------- *)

\* widget defaults (lines 50-52, 72-74), session keys as the first run sets
\* them (lines 94-95, 108-111); the first run of the script is pending
InitPlayback ==
    /\ auto_play = TRUE
    /\ fps = DefaultFps
    /\ loop_mode = "Stop at end"
    /\ step_days = DefaultStep
    /\ render_charts_live = FALSE
    /\ day = 0
    /\ playing = TRUE
    /\ ss_step_days = DefaultStep
    /\ ss_fps = DefaultFps
    /\ pc = "idle"
    /\ ev = Event("rerun", 0)
    /\ rerun = TRUE
    /\ slept = 0
    /\ mapDay = -1
    /\ shareChart = FALSE
    /\ metricsDay = -1
    /\ convChart = FALSE
    /\ churnChart = FALSE

Init ==
    /\ InitPlayback
    /\ cur = [c \in {"FTM_share", "LB_share", "OPP_share"} |-> 0]
    /\ dom = "none"
    /\ color = <<>>

(* ---------------- one script run ---------------- *)

\* lines 50-95 and 149-317: read the sidebar, persist _step_days and _fps,
\* slice the cell table for the map, draw or suppress the share chart
BeginRun(e, ap, f, lm, sd, rcl) ==
    /\ pc = "idle"
    /\ pc' = "right"
    /\ ev' = e
    /\ rerun' = FALSE
    /\ slept' = 0
    /\ auto_play' = ap
    /\ fps' = f
    /\ loop_mode' = lm
    /\ step_days' = sd
    /\ render_charts_live' = rcl
    /\ ss_step_days' = sd
    /\ ss_fps' = f
    /\ mapDay' = day
    /\ shareChart' = ~ChartsPaused(ap, playing, rcl)
    /\ UNCHANGED <<day, playing, metricsDay, convChart, churnChart, frame>>

\* the run st.rerun() asked for (or the first run of the session)
Rerun ==
    /\ rerun
    /\ BeginRun(Event("rerun", 0), auto_play, fps, loop_mode, step_days,
                render_charts_live)

\* a user event reaches the script through a widget the page already shows;
\* it starts a run when the script is idle (while a rerun is pending it is
\* the event that arrived during the sleep)
UserRun(e, ap, f, lm, sd, rcl) ==
    /\ metricsDay # -1
    /\ BeginRun(e, ap, f, lm, sd, rcl)

SameSidebar(e) ==
    UserRun(e, auto_play, fps, loop_mode, step_days, render_charts_live)

\* line 324: the Start button
PressStart == SameSidebar(Event("start", 0))

\* line 327: the Play/Pause button
PressPlayPause == SameSidebar(Event("toggle", 0))

\* line 330: the End button
PressEnd == SameSidebar(Event("end", 0))

\* line 334: the scrub slider is moved
Scrub == \E d \in ScrubPositions : SameSidebar(Event("scrub", d))

\* line 50
SetAutoPlay ==
    UserRun(Event("auto_play", 0), ~auto_play, fps, loop_mode, step_days,
            render_charts_live)

\* line 51
SetFps ==
    \E f \in FpsValues \ {fps} :
        UserRun(Event("fps", 0), auto_play, f, loop_mode, step_days,
                render_charts_live)

\* line 52
SetLoopMode ==
    \E lm \in LoopModes \ {loop_mode} :
        UserRun(Event("loop_mode", 0), auto_play, fps, lm, step_days,
                render_charts_live)

\* line 72
SetStepDays ==
    \E sd \in StepValues \ {step_days} :
        UserRun(Event("step_days", 0), auto_play, fps, loop_mode, sd,
                render_charts_live)

\* line 73
SetRenderChartsLive ==
    UserRun(Event("render_charts_live", 0), auto_play, fps, loop_mode,
            step_days, ~render_charts_live)

\* lines 320-386: Day Control buttons, scrub slider, Key Metrics,
\* conversions and churn charts
RightColumn ==
    /\ pc = "right"
    /\ pc' = "autoplay"
    /\ LET day1 == IF ev.kind = "start" THEN 0 ELSE day
           pl1  == IF ev.kind = "toggle" THEN Toggle(playing) ELSE playing
           day2 == IF ev.kind = "end" THEN max_day ELSE day1
           day3 == Slider(0, max_day, day2, ev)
       IN  /\ day' = day3
           /\ playing' = pl1
           /\ metricsDay' = day3
           /\ convChart' = ~ChartsPaused(auto_play, pl1, render_charts_live)
           /\ churnChart' = ~ChartsPaused(auto_play, pl1, render_charts_live)
    /\ UNCHANGED <<ss_step_days, ss_fps, sidebar, ev, rerun, slept, mapDay,
                   shareChart, frame>>

\* lines 481-492: the autoplay block, taken
Tick ==
    /\ pc = "autoplay"
    /\ AutoplayOn(auto_play, playing)
    /\ pc' = "idle"
    /\ day' = NextDay(day, ss_step_days, loop_mode)
    /\ playing' = NextPlaying(day, ss_step_days, loop_mode, playing)
    /\ slept' = SleepMs(ss_fps)
    /\ rerun' = TRUE
    /\ UNCHANGED <<ss_step_days, ss_fps, sidebar, ev, screen, frame>>

\* line 481: the autoplay block, skipped; the run ends
NoTick ==
    /\ pc = "autoplay"
    /\ ~AutoplayOn(auto_play, playing)
    /\ pc' = "idle"
    /\ UNCHANGED <<session, sidebar, ev, rerun, slept, screen, frame>>

Next ==
    \/ Rerun
    \/ PressStart
    \/ PressPlayPause
    \/ PressEnd
    \/ Scrub
    \/ SetAutoPlay
    \/ SetFps
    \/ SetLoopMode
    \/ SetStepDays
    \/ SetRenderChartsLive
    \/ RightColumn
    \/ Tick
    \/ NoTick

Spec == Init /\ [][Next]_vars

(* ---------------- frame selector on its own ---------------- *)

InitFrame ==
    /\ InitPlayback
    /\ cur \in Records
    /\ dom = "none"
    /\ color = <<>>

\* line 153: the slice for another day brings another row
LoadSlice ==
    /\ dom # "none"
    /\ cur' \in Records
    /\ dom' = "none"
    /\ color' = <<>>
    /\ UNCHANGED <<session, sidebar, pc, ev, rerun, slept, screen>>

\* lines 170-171: dominant owner and colour
Dominant ==
    /\ dom = "none"
    /\ dom' = IdxMax(cur)
    /\ color' = COLOR_MAP[dom']
    /\ UNCHANGED <<cur, session, sidebar, pc, ev, rerun, slept, screen>>

NextFrame == LoadSlice \/ Dominant

SpecFrame == InitFrame /\ [][NextFrame]_vars

(* ---------------- autoplay left alone ---------------- *)

\* the machine just set Playing, with Auto-play on: at the autoplay block
\* (line 481) of the run that handled a Play/Pause press taken while Paused
\* (lines 153, 246, 328, 334-386 done), for any day, step size, frame rate
\* and loop mode
InitAuto ==
    /\ auto_play = TRUE
    /\ playing = TRUE
    /\ day \in 0..max_day
    /\ loop_mode \in LoopModes
    /\ step_days \in StepValues
    /\ fps \in FpsValues
    /\ render_charts_live \in BOOLEAN
    /\ ss_step_days = step_days
    /\ ss_fps = fps
    /\ pc = "autoplay"
    /\ ev = Event("toggle", 0)
    /\ rerun = FALSE
    /\ slept = 0
    /\ mapDay = day
    /\ metricsDay = day
    /\ shareChart = ~ChartsPaused(auto_play, FALSE, render_charts_live)
    /\ convChart = ~ChartsPaused(auto_play, playing, render_charts_live)
    /\ churnChart = ~ChartsPaused(auto_play, playing, render_charts_live)
    /\ cur = [c \in {"FTM_share", "LB_share", "OPP_share"} |-> 0]
    /\ dom = "none"
    /\ color = <<>>

\* no user event: only the runs st.rerun() asks for (line 492)
NextAuto ==
    \/ Rerun
    \/ RightColumn
    \/ Tick
    \/ NoTick

\* the host always carries out a requested rerun and finishes a started run
SpecAuto == InitAuto /\ [][NextAuto]_vars /\ WF_vars(NextAuto)

(* ---------------- properties ---------------- *)

\* C1: in stop-at-end mode a tick whose next day reaches or exceeds max_day
\* sets day to max_day and pauses in that same tick, so no run that ticked
\* ends Playing at day = max_day
C1_AutoStopAtEnd ==
    (pc = "idle" /\ rerun /\ loop_mode = "Stop at end")
        => ~(playing /\ day = max_day)

\* C2: the current day is always an integer in 0..max_day
C2_DayInRange == day \in 0..max_day

C2_Witness ==
    /\ pc = "idle" /\ rerun /\ slept > 0
    /\ loop_mode = "Stop at end" /\ ~playing /\ day = max_day

\* C3: in loop mode a tick taken while Playing stores 0 when day + step_size
\* exceeds max_day and day + step_size otherwise, and leaves Playing set
C3_LoopTick ==
    [][(pc = "autoplay" /\ auto_play /\ playing /\ loop_mode = "Loop")
        => /\ playing'
           /\ day' = IF day + ss_step_days > max_day
                     THEN 0 ELSE day + ss_step_days]_vars

C3_Witness ==
    /\ pc = "idle" /\ rerun /\ slept > 0
    /\ loop_mode = "Loop" /\ playing /\ day = 0

\* C4: when the playing flag is false or Auto-play is off at the end of a
\* run, the run ends with day and playing unchanged, no sleep and no rerun
C4_PausedTickNoOp ==
    [][(pc = "autoplay" /\ ~(auto_play /\ playing))
        => /\ day' = day
           /\ playing' = playing
           /\ slept' = 0
           /\ ~rerun'
           /\ pc' = "idle"]_vars

C4_Witness ==
    pc = "idle" /\ ~rerun /\ slept = 0 /\ playing /\ ~auto_play

\* C5: once a run has handled the End press, day is max_day and playing has
\* the value it had before the press
C5_EndPressHandled ==
    [][(pc = "autoplay" /\ ev.kind = "end")
        => (day' = max_day /\ playing' = playing)]_vars

C7_MapShowsCurrentDay ==
    (pc = "idle" /\ ~rerun /\ metricsDay # -1)
        => (mapDay = day /\ metricsDay = day)

\* C8: the three trend charts are all drawn or all suppressed in one run, and
\* a run that ends Paused has drawn all three
C8_ChartsTogether ==
    (pc = "idle" /\ ~rerun /\ metricsDay # -1)
        => /\ shareChart = convChart
           /\ convChart = churnChart
           /\ (~playing => (shareChart /\ convChart /\ churnChart))

\* C9: the dominant strategy has the maximum share, the first column in the
\* order FTM, LB, OPP wins ties, and the colour is that strategy's colour
C9_DominantFirstMax ==
    dom # "none"
        => /\ \A c \in DOMAIN cur : cur[c] <= cur[dom]
           /\ (dom = "LB_share" => cur["FTM_share"] < cur["LB_share"])
           /\ (dom = "OPP_share" => /\ cur["FTM_share"] < cur["OPP_share"]
                                    /\ cur["LB_share"] < cur["OPP_share"])
           /\ (dom = "FTM_share" => color = <<255, 140, 0>>)
           /\ (dom = "LB_share" => color = <<0, 128, 255>>)
           /\ (dom = "OPP_share" => color = <<60, 179, 113>>)

C9_Witness ==
    /\ dom = "LB_share"
    /\ cur["LB_share"] = cur["OPP_share"]
    /\ cur["FTM_share"] < cur["LB_share"]

\* C10: a Play/Pause press taken while Playing clears the flag before the
\* autoplay block of the same run; while the flag is clear only Start, End and
\* the scrub slider change the day, and only a Play/Pause press sets it again
C10_PauseBeforeTick ==
    [][/\ (pc = "right" /\ ev.kind = "toggle" /\ playing) => ~playing'
       /\ (~playing /\ day' # day)
            => (pc = "right" /\ ev.kind \in {"start", "end", "scrub"})
       /\ (~playing /\ playing') => (pc = "right" /\ ev.kind = "toggle")
       /\ (~playing /\ pc = "autoplay") => (~rerun' /\ slept' = 0)]_vars

C10_Witness ==
    /\ pc = "idle" /\ ev.kind = "toggle" /\ ~playing /\ auto_play
    /\ ~rerun /\ day < max_day /\ day > 0

\* C11: left alone while Playing, stop-at-end mode ends for good at
\* day = max_day, Paused, with no run pending; loop mode never pauses and
\* comes back to day 0 again and again
C11_AutoStopReached ==
    /\ (loop_mode = "Stop at end")
         => <>[](day = max_day /\ ~playing /\ pc = "idle" /\ ~rerun)
    /\ (loop_mode = "Loop")
         => ([]playing /\ []<>(day = 0 /\ pc = "idle" /\ rerun))

C11_Witness ==
    /\ loop_mode = "Stop at end" /\ day = max_day /\ ~playing
    /\ pc = "idle" /\ ~rerun /\ ev.kind = "rerun" /\ mapDay = max_day

====
